---- MODULE Spec2Model ----
(***************************************************************************)
(* Fastmail MCP server (src/fastmail_mcp.py): the shared FastmailClient    *)
(* with its cached JMAP session, and the tool / resource entry points that *)
(* run on it as asyncio tasks.  One action is one stretch of handler code  *)
(* between two awaits of a network call.                                   *)
(***************************************************************************)
EXTENDS Integers, Sequences, FiniteSets, TLC

\* ---------------------------------------------------------------- bounds
MaxCalls == 3          \* invocations started in one run
MaxFolders == 2        \* folders in a Mailbox/get listing

MaxLimit == 50         \* min(int(limit), 50)
ResourceLimit == 10    \* client.search_emails("", 10, "inbox")

\* the tasks running entry points: two are enough to overlap
Procs == {1, 2}

\* ------------------------------------------------------- values and inputs
None == "None"         \* Python None / JSON null
Absent == "Absent"     \* key missing from a JSON object
SESSION_URL == "https://api.fastmail.com/jmap/session"

\* the "using" of every request body
Using == <<"urn:ietf:params:jmap:core", "urn:ietf:params:jmap:mail">>

Tools == {"search_emails", "get_email", "list_mailboxes",
          "get_mailboxes_resource", "get_recent_emails_resource"}
Queries == {"", "q"}
Limits == {-1, 10, 50, 51, 100}
MailboxArgs == {"", "inbox", "WORK"}
EmailIds == {"", "e1"}

\* the @mcp.prompt() functions: each returns a fixed text
Prompts == {"check_inbox", "search_from_sender", "check_unread", "find_attachments"}

\* str.lower() on the strings the model uses
Lower(s) ==
  CASE s \in {"Inbox", "INBOX", "inbox"} -> "inbox"
    [] s \in {"Work", "WORK", "work"} -> "work"
    [] OTHER -> s

\* session documents the session endpoint may answer with
SessionDocs ==
  { [mail |-> "a1", apiUrl |-> "u1"],
    [mail |-> "a2", apiUrl |-> "u2"],
    [mail |-> Absent, apiUrl |-> "u1"],
    [mail |-> "a1", apiUrl |-> Absent] }

NoDoc == [mail |-> None, apiUrl |-> None]

HttpError == [status |-> "error"]
GetResponses == {HttpError} \cup {[status |-> "ok", json |-> d] : d \in SessionDocs}

\* folders of a Mailbox/get listing: role is a string, JSON null, or missing
FolderNames == {"Inbox", "Work"}
FolderRoles == {Absent, None, "inbox"}
FolderIds == {"m1", "m2", "m3"}

RECURSIVE SeqsUpTo(_, _)
SeqsUpTo(S, n) ==
  IF n = 0 THEN {<< >>}
  ELSE LET shorter == SeqsUpTo(S, n - 1)
       IN shorter \cup {Append(q, x) : q \in {r \in shorter : Len(r) = n - 1}, x \in S}

Shapes == [name : FolderNames, role : FolderRoles]

\* a listing: the folder at position i has id "m<i>"
IdAt(i) == CASE i = 1 -> "m1" [] i = 2 -> "m2" [] OTHER -> "m3"
Listings ==
  { [i \in 1..Len(q) |-> [id |-> IdAt(i), name |-> q[i].name, role |-> q[i].role]] :
      q \in SeqsUpTo(Shapes, MaxFolders) }

\* the listings the API answers with while invocations run; Listings are
\* the inputs of the folder lookup on its own
ServedListings ==
  { << >>,
    <<[id |-> "m1", name |-> "Inbox", role |-> "inbox"]>>,
    <<[id |-> "m1", name |-> "Work", role |-> None]>>,
    <<[id |-> "m1", name |-> "Work", role |-> Absent], [id |-> "m2", name |-> "INBOX", role |-> "inbox"]>> }

\* emails of an Email/get list: "from" is a list of addresses or JSON null
Emails == { [id |-> "e1", from |-> "ok"], [id |-> "e1", from |-> None] }
EmailLists == {<< >>} \cup {<<e>> : e \in Emails}

Entry(n, has, l) == [name |-> n, hasList |-> has, list |-> l]
ErrEntry == Entry("error", FALSE, << >>)
QueryEntry == Entry("Email/query", FALSE, << >>)

Body(has, mr) == [status |-> "ok", hasMR |-> has, mr |-> mr]

EmailBodies ==
  {Body(TRUE, <<Entry("Email/get", FALSE, << >>)>>)}
    \cup {Body(TRUE, <<Entry("Email/get", TRUE, l)>>) : l \in EmailLists}
    \cup {Body(TRUE, <<QueryEntry, Entry("Email/get", TRUE, l)>>) : l \in EmailLists}
MailboxBodies(ls) ==
  {Body(TRUE, <<Entry("Mailbox/get", FALSE, << >>)>>)}
    \cup {Body(TRUE, <<Entry("Mailbox/get", TRUE, l)>>) : l \in ls}
MalformedBodies ==
  {Body(FALSE, << >>), Body(TRUE, << >>), Body(TRUE, <<ErrEntry>>)}

PostError == [status |-> "error", hasMR |-> FALSE, mr |-> << >>]

\* what a POST to the API may return
PostResponses ==
  {PostError} \cup EmailBodies \cup MailboxBodies(ServedListings) \cup MalformedBodies

\* the few of them answered while invocations overlap
ServedResponses ==
  { PostError,
    Body(FALSE, << >>),
    Body(TRUE, <<Entry("Email/get", TRUE, << >>)>>),
    Body(TRUE, <<QueryEntry, Entry("Email/get", TRUE, <<[id |-> "e1", from |-> "ok"]>>)>>),
    Body(TRUE, <<Entry("Mailbox/get", TRUE, << >>)>>),
    Body(TRUE, <<Entry("Mailbox/get", TRUE,
                       <<[id |-> "m1", name |-> "Inbox", role |-> "inbox"]>>)>>) }


\* ------------------------------------------------------------------ state
VARIABLES
  envToken,         \* what get_api_token() returns
  fastmail_client,  \* the global client: [exists, api_token]
  session_data,     \* FastmailClient.session_data (NoDoc is None)
  account_id,       \* FastmailClient.account_id
  api_url,          \* FastmailClient.api_url
  inv,              \* the invocations: one record per task
  started,          \* invocations started so far
  hist,             \* counters over the run
  lookup,           \* a folder lookup on its own: listing, requested name, result
  request_config,   \* main.py: the ContextVar's value in the context of each request's task
  requests          \* main.py: the HTTP requests passing through ConfigMiddleware

vars == <<envToken, fastmail_client, session_data, account_id, api_url, inv, started, hist,
          lookup, request_config, requests>>

\* the HTTP requests in progress at a time, and dict(request.query_params)
Requests == {"r1", "r2"}
QueryParams == {"{}", "{fastmailApiToken: t1}", "{fastmailApiToken: t2}", "{debug: 1}"}

\* a ContextVar never set in a context; get() then returns its default, {}
Unset == "unset"
ContextVarGet(v) == IF v = Unset THEN "{}" ELSE v

NoRequest == [pc |-> "idle", query_params |-> "{}", token |-> Unset, raised |-> FALSE]

NoLookup == [pc |-> "off", listing |-> << >>, name |-> "", exc |-> None, id |-> None]
NoClient == [exists |-> FALSE, api_token |-> ""]
NoOutcome == [kind |-> "none", exc |-> None, id |-> "", n |-> 0]
NoResult == [status |-> "none", hasMR |-> FALSE, mr |-> << >>]
NoFilter == [null |-> TRUE, text |-> Absent, inMailbox |-> Absent]

Idle ==
  [pc |-> "idle", tool |-> "", query |-> "", limit |-> 0, mailbox |-> "", email_id |-> "",
   cquery |-> "", climit |-> 0, cmailbox |-> None,
   phase |-> "", calls |-> << >>, using |-> << >>, url |-> None, nInFlight |-> 0, nreq |-> 0,
   looked |-> FALSE, mailbox_id |-> None,
   fetched |-> FALSE, ownUrl |-> None, sessFail |-> FALSE,
   result |-> NoResult, exc |-> None, outcome |-> NoOutcome]

\* -------------------------------------------------------- FastmailClient
get_api_token == envToken

TokenError == "ValueError: FASTMAIL_API_TOKEN is not configured"
ApiUrlError == "ValueError: API URL not available"

\* get_client() without its `if fastmail_client is None`
get_clientAlwaysNew ==
  IF get_api_token = ""
  THEN [exc |-> TokenError, client |-> fastmail_client, constructed |-> FALSE]
  ELSE [exc |-> None, client |-> [exists |-> TRUE, api_token |-> get_api_token],
        constructed |-> TRUE]

\* get_client(): the lazily created global client; constructed tells whether
\* FastmailClient(token) ran
get_client ==
  IF fastmail_client.exists
  THEN [exc |-> None, client |-> fastmail_client, constructed |-> FALSE]
  ELSE IF get_api_token = ""
  THEN [exc |-> TokenError, client |-> fastmail_client, constructed |-> FALSE]
  ELSE [exc |-> None, client |-> [exists |-> TRUE, api_token |-> get_api_token],
        constructed |-> TRUE]

\* a method call [name, arguments, call id]; sort is the "sort" list (empty when
\* the key is not given), ids the "ids" or "#ids" argument
Call(name, acct, filter, sort, limit, ids, callId) ==
  [name |-> name, accountId |-> acct, filter |-> filter, sort |-> sort, limit |-> limit,
   ids |-> ids, callId |-> callId]

\* no ids argument, "ids": [...], and the back-reference "#ids": {resultOf, name, path}
IdsAbsent == [key |-> Absent, resultOf |-> "", name |-> "", path |-> "", list |-> << >>]
IdsOf(list) == [key |-> "ids", resultOf |-> "", name |-> "", path |-> "", list |-> list]
IdsRef(resultOf, name, path) ==
  [key |-> "#ids", resultOf |-> resultOf, name |-> name, path |-> path, list |-> << >>]

\* filter_conditions of search_emails; null is `filter_conditions if filter_conditions else None`
FilterConditions(query, mailbox_id) ==
  LET text == IF query # "" THEN query ELSE Absent
      inMailbox == IF mailbox_id # None /\ mailbox_id # "" THEN mailbox_id ELSE Absent
  IN [null |-> (text = Absent /\ inMailbox = Absent), text |-> text, inMailbox |-> inMailbox]

\* search_emails sorting oldest first
SearchCallsAscending(acct, query, limit, mailbox_id) ==
  << Call("Email/query", acct, FilterConditions(query, mailbox_id),
          <<[property |-> "receivedAt", isAscending |-> TRUE]>>, limit, IdsAbsent, "q1"),
     Call("Email/get", acct, NoFilter, << >>, Absent,
          IdsRef("q1", "Email/query", "/ids"), "g1") >>

SearchCalls(acct, query, limit, mailbox_id) ==
  << Call("Email/query", acct, FilterConditions(query, mailbox_id),
          <<[property |-> "receivedAt", isAscending |-> FALSE]>>, limit, IdsAbsent, "q1"),
     Call("Email/get", acct, NoFilter, << >>, Absent,
          IdsRef("q1", "Email/query", "/ids"), "g1") >>

GetEmailCalls(acct, email_id) ==
  << Call("Email/get", acct, NoFilter, << >>, Absent, IdsOf(<<email_id>>), "g1") >>

\* list_mailboxes issuing a state-changing method
ListMailboxesCallsSet(acct) ==
  << Call("Mailbox/set", acct, NoFilter, << >>, Absent, IdsAbsent, "m1") >>

ListMailboxesCalls(acct) ==
  << Call("Mailbox/get", acct, NoFilter, << >>, Absent, IdsAbsent, "m1") >>


ErrorText(exc) == [kind |-> "error", exc |-> exc, id |-> "", n |-> 0]

\* an except clause that names httpx.HTTPStatusError only
ToolBoundaryHttpOnly(tool, exc) ==
  IF exc = "HTTPStatusError" THEN ErrorText(exc)
  ELSE [kind |-> "raised", exc |-> exc, id |-> "", n |-> 0]

\* the `except Exception as e: return f"Error ...: {str(e)}"` of every entry point
ToolBoundary(tool, exc) == ErrorText(exc)

\* an exception raised below the entry point unwinds to its except clause
Raise(pr, exc) ==
  [pr EXCEPT !.pc = "done", !.exc = exc, !.outcome = ToolBoundary(pr.tool, exc)]

Finish(pr, outcome) == [pr EXCEPT !.pc = "done", !.outcome = outcome]

\* a request goes out: self.client.get(SESSION_URL) or self.client.post(url, json=payload)
Send(pr, pc, url, calls) ==
  [pr EXCEPT !.pc = pc, !.url = url, !.calls = calls,
             !.using = IF pc = "await_post" THEN Using ELSE << >>,
             !.nInFlight = @ + 1, !.nreq = @ + 1]

\* make_jmap_request without its `if not self.api_url`
PostAfterSessionUnchecked(pr, calls, url) == Send(pr, "await_post", url, calls)

\* make_jmap_request after `await self.get_session()`: the api_url check and the POST
PostAfterSession(pr, calls, url) ==
  IF url = None THEN Raise(pr, ApiUrlError)
  ELSE Send(pr, "await_post", url, calls)

\* get_session without its `if self.session_data is None`
NeedsFetchAlways(sd) == TRUE

\* get_session up to its await: the session GET is sent when nothing is cached
NeedsFetch(sd) == sd = NoDoc

\* make_jmap_request up to its first await
make_jmap_request(pr, calls, sd, url) ==
  IF NeedsFetch(sd) THEN Send(pr, "await_session", SESSION_URL, calls)
  ELSE PostAfterSession(pr, calls, url)

\* get_session assigning session_data before raise_for_status
get_sessionCachesError(resp, acct, url, sd) ==
  IF resp.status = "error"
  THEN [exc |-> "HTTPStatusError", session_data |-> [mail |-> Absent, apiUrl |-> Absent],
        account_id |-> acct, api_url |-> url]
  ELSE IF resp.json.mail = Absent
  THEN [exc |-> "KeyError", session_data |-> resp.json, account_id |-> acct, api_url |-> url]
  ELSE IF resp.json.apiUrl = Absent
  THEN [exc |-> "KeyError", session_data |-> resp.json, account_id |-> resp.json.mail, api_url |-> url]
  ELSE [exc |-> None, session_data |-> resp.json,
        account_id |-> resp.json.mail, api_url |-> resp.json.apiUrl]

\* get_session after the GET returned: raise_for_status, then the three assignments
get_session(resp, acct, url, sd) ==
  IF resp.status = "error"
  THEN [exc |-> "HTTPStatusError", session_data |-> sd, account_id |-> acct, api_url |-> url]
  ELSE IF resp.json.mail = Absent
  THEN [exc |-> "KeyError", session_data |-> resp.json, account_id |-> acct, api_url |-> url]
  ELSE IF resp.json.apiUrl = Absent
  THEN [exc |-> "KeyError", session_data |-> resp.json, account_id |-> resp.json.mail, api_url |-> url]
  ELSE [exc |-> None, session_data |-> resp.json,
        account_id |-> resp.json.mail, api_url |-> resp.json.apiUrl]

\* FastmailClient.search_emails up to its first await
client_search_emails(pr, query, limit, mailbox, acct, sd, url) ==
  LET pr1 == [pr EXCEPT !.cquery = query, !.climit = limit, !.cmailbox = mailbox]
  IN IF mailbox # None /\ mailbox # ""
     THEN make_jmap_request([pr1 EXCEPT !.phase = "mailbox"], ListMailboxesCalls(acct), sd, url)
     ELSE make_jmap_request([pr1 EXCEPT !.phase = "final"],
                            SearchCalls(acct, query, limit, None), sd, url)

\* the scan of get_mailbox_id over the folder listing
RECURSIVE ScanMailboxes(_, _, _)
ScanMailboxes(mailboxes, i, mailbox_name) ==
  IF i > Len(mailboxes) THEN [exc |-> None, id |-> None]
  ELSE LET mailbox == mailboxes[i]
       IN IF ~("name" \in DOMAIN mailbox) THEN [exc |-> "KeyError", id |-> None]
          ELSE IF Lower(mailbox.name) = Lower(mailbox_name) THEN [exc |-> None, id |-> mailbox.id]
          ELSE IF mailbox.role = None THEN [exc |-> "AttributeError", id |-> None]
          ELSE IF Lower(IF mailbox.role = Absent THEN "" ELSE mailbox.role) = Lower(mailbox_name)
               THEN [exc |-> None, id |-> mailbox.id]
          ELSE ScanMailboxes(mailboxes, i + 1, mailbox_name)

\* mailboxes_result.get("methodResponses", [[]])[0][1].get("list", [])
MailboxesOf(body) ==
  IF ~body.hasMR \/ Len(body.mr) = 0 THEN [exc |-> "IndexError", list |-> << >>]
  ELSE [exc |-> None, list |-> IF body.mr[1].hasList THEN body.mr[1].list ELSE << >>]

\* get_mailbox_id after list_mailboxes returned
get_mailbox_id(body, mailbox_name) ==
  LET m == MailboxesOf(body)
  IN IF m.exc # None THEN [exc |-> m.exc, id |-> None, scanned |-> FALSE, list |-> << >>]
     ELSE LET r == ScanMailboxes(m.list, 1, mailbox_name)
          IN [exc |-> r.exc, id |-> r.id, scanned |-> TRUE, list |-> m.list]

\* ------------------------------------------------------------ entry points
\* int(limit) passed on as it is
ClampLimitOff(limit) == limit

\* min(int(limit), 50)
ClampLimit(limit) == IF limit < MaxLimit THEN limit ELSE MaxLimit

\* the loop `for response in result.get("methodResponses", []): if response[0] == name: ... break`
RECURSIVE FirstList(_, _, _)
FirstList(mr, i, name) ==
  IF i > Len(mr) THEN << >>
  ELSE IF mr[i].name = name THEN (IF mr[i].hasList THEN mr[i].list ELSE << >>)
  ELSE FirstList(mr, i + 1, name)

ListOf(body, name) == IF body.hasMR THEN FirstList(body.mr, 1, name) ELSE << >>

\* email.get("from", [{}])[0] raises on a null "from"
FromRaises(emails) == \E i \in 1..Len(emails) : emails[i].from = None

\* search_emails and get_recent_emails_resource after the client call returned
FormatSearch(pr, body) ==
  LET emails == ListOf(body, "Email/get")
  IN IF Len(emails) = 0 THEN Finish(pr, [kind |-> "empty", exc |-> None, id |-> "", n |-> 0])
     ELSE IF FromRaises(emails) THEN Raise(pr, "TypeError")
     ELSE Finish(pr, [kind |-> "found", exc |-> None, id |-> "", n |-> Len(emails)])

\* get_email taking emails_list[0] without `if emails_list`
FormatEmailUnchecked(pr, body) ==
  LET emails_list == ListOf(body, "Email/get")
  IN IF Len(emails_list) = 0 THEN Raise(pr, "IndexError")
     ELSE IF emails_list[1].from = None THEN Raise(pr, "TypeError")
     ELSE Finish(pr, [kind |-> "found", exc |-> None, id |-> emails_list[1].id, n |-> 1])

\* get_email after the client call returned
FormatEmail(pr, body) ==
  LET emails_list == ListOf(body, "Email/get")
  IN IF Len(emails_list) = 0
     THEN Finish(pr, [kind |-> "not_found", exc |-> None, id |-> pr.email_id, n |-> 0])
     ELSE IF emails_list[1].from = None THEN Raise(pr, "TypeError")
     ELSE Finish(pr, [kind |-> "found", exc |-> None, id |-> emails_list[1].id, n |-> 1])

\* list_mailboxes and get_mailboxes_resource after the client call returned
FormatMailboxes(pr, body) ==
  LET mailboxes == ListOf(body, "Mailbox/get")
  IN IF Len(mailboxes) = 0 THEN Finish(pr, [kind |-> "empty", exc |-> None, id |-> "", n |-> 0])
     ELSE Finish(pr, [kind |-> "found", exc |-> None, id |-> "", n |-> Len(mailboxes)])

Format(pr, body) ==
  CASE pr.tool \in {"search_emails", "get_recent_emails_resource"} -> FormatSearch(pr, body)
    [] pr.tool = "get_email" -> FormatEmail(pr, body)
    [] OTHER -> FormatMailboxes(pr, body)

\* the entry point from `client = get_client()` on, up to its first await
ClientCall(pr, acct, sd, url) ==
  CASE pr.tool = "search_emails" ->
         client_search_emails(pr, pr.query, ClampLimit(pr.limit),
                              IF pr.mailbox # "" THEN pr.mailbox ELSE None, acct, sd, url)
    [] pr.tool = "get_recent_emails_resource" ->
         client_search_emails(pr, "", ResourceLimit, "inbox", acct, sd, url)
    [] pr.tool = "get_email" ->
         make_jmap_request([pr EXCEPT !.phase = "final"], GetEmailCalls(acct, pr.email_id), sd, url)
    [] OTHER ->
         make_jmap_request([pr EXCEPT !.phase = "final"], ListMailboxesCalls(acct), sd, url)

\* the arguments an entry point takes; the others keep their defaults
ArgsOf(tool) ==
  CASE tool = "search_emails" ->
         {[query |-> q, limit |-> l, mailbox |-> m, email_id |-> ""] :
            q \in Queries, l \in Limits, m \in MailboxArgs}
    [] tool = "get_email" ->
         {[query |-> "", limit |-> 0, mailbox |-> "", email_id |-> e] : e \in EmailIds}
    [] OTHER -> {[query |-> "", limit |-> 0, mailbox |-> "", email_id |-> ""]}

\* the arguments used while invocations overlap
ServedArgsOf(tool) ==
  CASE tool = "search_emails" ->
         {[query |-> "q", limit |-> 51, mailbox |-> m, email_id |-> ""] : m \in {"", "inbox"}}
    [] tool = "get_email" ->
         {[query |-> "", limit |-> 0, mailbox |-> "", email_id |-> e] : e \in EmailIds}
    [] OTHER -> {[query |-> "", limit |-> 0, mailbox |-> "", email_id |-> ""]}

Active(p) == inv[p].pc \in {"await_session", "await_post"}

\* get_email without its `if not email_id`
EarlyReturnNever(tool, a) == FALSE

\* `if not email_id: return "Error: email_id is required. ..."` of get_email
EarlyReturn(tool, a) == tool = "get_email" /\ a.email_id = ""


\* ---------------------------------------------------------------- actions
Init ==
  /\ envToken \in {"", "tok"}
  /\ fastmail_client = NoClient
  /\ session_data = NoDoc
  /\ account_id = None
  /\ api_url = None
  /\ inv = [p \in Procs |-> Idle]
  /\ started = 0
  /\ hist = [gets |-> 0, getErr |-> FALSE, clients |-> 0]
  /\ lookup = NoLookup
  /\ request_config = [r \in Requests |-> Unset]
  /\ requests = [r \in Requests |-> NoRequest]

\* the environment gets a token configured
SetToken ==
  /\ envToken = ""
  /\ envToken' = "tok"
  /\ UNCHANGED <<fastmail_client, session_data, account_id, api_url, inv, started, hist, lookup, request_config, requests>>

\* an entry point is invoked with arguments a and runs up to its first await
\* (or to its return)
Invoke(p, tool, a) ==
  LET pr == [Idle EXCEPT !.tool = tool, !.query = a.query, !.limit = a.limit,
                         !.mailbox = a.mailbox, !.email_id = a.email_id]
      gc == get_client
      early == EarlyReturn(tool, a)
      next == IF early
              THEN Finish(pr, [kind |-> "id_required", exc |-> None, id |-> "", n |-> 0])
              ELSE IF gc.exc # None THEN Raise(pr, gc.exc)
              ELSE ClientCall(pr, account_id, session_data, api_url)
  IN /\ inv[p].pc = "idle"
     /\ started < MaxCalls
     /\ inv' = [inv EXCEPT ![p] = next]
     /\ fastmail_client' = IF early THEN fastmail_client ELSE gc.client
     /\ hist' = [hist EXCEPT
                   !.gets = IF next.pc = "await_session" THEN @ + 1 ELSE @,
                   !.clients = IF ~early /\ gc.constructed THEN @ + 1 ELSE @]
     /\ started' = started + 1
     /\ UNCHANGED <<envToken, session_data, account_id, api_url, lookup, request_config, requests>>

\* the session GET of invocation p returns; get_session finishes and
\* make_jmap_request goes on to its POST
RecvSession(p) ==
  /\ inv[p].pc = "await_session"
  /\ \E resp \in GetResponses :
       LET s == get_session(resp, account_id, api_url, session_data)
           pr == [inv[p] EXCEPT !.nInFlight = @ - 1, !.fetched = TRUE,
                                !.sessFail = (resp.status = "error"),
                                !.ownUrl = IF resp.status = "ok" THEN resp.json.apiUrl ELSE None]
       IN /\ session_data' = s.session_data
          /\ account_id' = s.account_id
          /\ api_url' = s.api_url
          /\ inv' = [inv EXCEPT ![p] = IF s.exc # None THEN Raise(pr, s.exc)
                                       ELSE PostAfterSession(pr, pr.calls, s.api_url)]
          /\ hist' = [hist EXCEPT !.getErr = @ \/ (resp.status = "error")]
  /\ UNCHANGED <<envToken, fastmail_client, started, lookup, request_config, requests>>

\* the API POST of invocation p returns resp: raise_for_status, then either the
\* rest of get_mailbox_id and of search_emails up to the next POST, or the formatting
Receive(p, resp) ==
  LET pr == [inv[p] EXCEPT !.nInFlight = @ - 1]
      m == get_mailbox_id(resp, pr.cmailbox)
      scanned == [pr EXCEPT !.looked = m.scanned, !.mailbox_id = m.id]
      next == IF resp.status = "error" THEN Raise(pr, "HTTPStatusError")
              ELSE IF pr.phase = "mailbox"
              THEN IF m.exc # None THEN Raise(scanned, m.exc)
                   ELSE make_jmap_request([scanned EXCEPT !.phase = "final"],
                          SearchCalls(account_id, pr.cquery, pr.climit, m.id),
                          session_data, api_url)
              ELSE Format([pr EXCEPT !.result = resp], resp)
  IN /\ inv[p].pc = "await_post"
     /\ inv' = [inv EXCEPT ![p] = next]
     /\ hist' = [hist EXCEPT !.gets = IF next.pc = "await_session" THEN @ + 1 ELSE @]
     /\ UNCHANGED <<envToken, fastmail_client, session_data, account_id, api_url, started,
                    lookup, request_config, requests>>

\* the entry point's return value has been handed to the framework
Return(p) ==
  /\ inv[p].pc = "done"
  /\ inv' = [inv EXCEPT ![p] = Idle]
  /\ UNCHANGED <<envToken, fastmail_client, session_data, account_id, api_url, started, hist,
                 lookup, request_config, requests>>

\* a prompt is invoked: it returns its text and touches neither the client
\* nor the network
Prompt(name) ==
  /\ started < MaxCalls
  /\ started' = started + 1
  /\ UNCHANGED <<envToken, fastmail_client, session_data, account_id, api_url, inv, hist,
                 lookup, request_config, requests>>

\* invocations run as concurrent tasks on the one event loop
Start(p) == \E tool \in Tools : \E a \in ServedArgsOf(tool) : Invoke(p, tool, a)
RecvPost(p) == \E resp \in ServedResponses : Receive(p, resp)

Next ==
  \/ SetToken
  \/ \E name \in Prompts : Prompt(name)
  \/ \E p \in Procs : Start(p)
  \/ \E p \in Procs : RecvSession(p)
  \/ \E p \in Procs : RecvPost(p)
  \/ \E p \in Procs : Return(p)

Spec == Init /\ [][Next]_vars

\* one invocation at a time, each starting after the previous one has returned
StartSeq(p) ==
  /\ \A q \in Procs : inv[q].pc = "idle"
  /\ \E tool \in Tools : \E a \in ArgsOf(tool) : Invoke(p, tool, a)
RecvPostSeq(p) == \E resp \in PostResponses : Receive(p, resp)

NextSeq ==
  \/ SetToken
  \/ \E name \in Prompts : Prompt(name)
  \/ \E p \in Procs : StartSeq(p)
  \/ \E p \in Procs : RecvSession(p)
  \/ \E p \in Procs : RecvPostSeq(p)
  \/ \E p \in Procs : Return(p)

SpecSeq == Init /\ [][NextSeq]_vars

\* get_mailbox_id on its own: every listing and requested name, then the scan
LookupNames == {"inbox", "WORK", "work", "Sent"}

InitLookup ==
  /\ envToken = "tok"
  /\ fastmail_client = NoClient
  /\ session_data = NoDoc
  /\ account_id = None
  /\ api_url = None
  /\ inv = [p \in Procs |-> Idle]
  /\ started = 0
  /\ hist = [gets |-> 0, getErr |-> FALSE, clients |-> 0]
  /\ \E l \in Listings, n \in LookupNames :
       lookup = [pc |-> "input", listing |-> l, name |-> n, exc |-> None, id |-> None]
  /\ request_config = [r \in Requests |-> Unset]
  /\ requests = [r \in Requests |-> NoRequest]

Lookup ==
  /\ lookup.pc = "input"
  /\ LET r == get_mailbox_id(Body(TRUE, <<Entry("Mailbox/get", TRUE, lookup.listing)>>),
                             lookup.name)
     IN lookup' = [lookup EXCEPT !.pc = "done", !.exc = r.exc, !.id = r.id]
  /\ UNCHANGED <<envToken, fastmail_client, session_data, account_id, api_url, inv, started,
                 hist, request_config, requests>>

NextLookup == Lookup

SpecLookup == InitLookup /\ [][NextLookup]_vars

\* ------------------------------------------------- main.py: ConfigMiddleware
\* dispatch leaving out the reset when call_next raised (try/else, not finally)
dispatch_finallyOnReturnOnly(ctx, token, raised) == IF raised THEN ctx ELSE token

\* `finally: request_config.reset(token)`: the value the token recorded is put
\* back, whether call_next returned or raised
dispatch_finally(ctx, token, raised) == token

\* dispatch up to `await call_next(request)`: config = dict(request.query_params),
\* token = request_config.set(config); the token records the value before
dispatch(r, config) ==
  /\ requests[r].pc = "idle"
  /\ requests' = [requests EXCEPT ![r] = [pc |-> "handling", query_params |-> config,
                                          token |-> request_config[r], raised |-> FALSE]]
  /\ request_config' = [request_config EXCEPT ![r] = config]
  /\ UNCHANGED <<envToken, fastmail_client, session_data, account_id, api_url, inv, started,
                 hist, lookup>>

\* call_next returned the response or raised the handler's exception; the
\* finally clause runs and dispatch is over
call_next_done(r, raised) ==
  /\ requests[r].pc = "handling"
  /\ requests' = [requests EXCEPT ![r].pc = "done", ![r].raised = raised]
  /\ request_config' =
       [request_config EXCEPT ![r] = dispatch_finally(@, requests[r].token, raised)]
  /\ UNCHANGED <<envToken, fastmail_client, session_data, account_id, api_url, inv, started,
                 hist, lookup>>

call_next_returns(r) == call_next_done(r, FALSE)
call_next_raises(r) == call_next_done(r, TRUE)

\* the server starts the task of the next request: its context is a copy of
\* the server's own, where request_config was never set, or of the context in
\* which the previous request on the connection was completed
next_request(r) ==
  /\ requests[r].pc = "done"
  /\ requests' = [requests EXCEPT ![r] = NoRequest]
  /\ \E v \in {Unset, request_config[r]} :
       request_config' = [request_config EXCEPT ![r] = v]
  /\ UNCHANGED <<envToken, fastmail_client, session_data, account_id, api_url, inv, started,
                 hist, lookup>>

InitConfig ==
  /\ envToken = "tok"
  /\ fastmail_client = NoClient
  /\ session_data = NoDoc
  /\ account_id = None
  /\ api_url = None
  /\ inv = [p \in Procs |-> Idle]
  /\ started = 0
  /\ hist = [gets |-> 0, getErr |-> FALSE, clients |-> 0]
  /\ lookup = NoLookup
  /\ request_config = [r \in Requests |-> Unset]
  /\ requests = [r \in Requests |-> NoRequest]

NextConfig ==
  \/ \E r \in Requests : \E config \in QueryParams : dispatch(r, config)
  \/ \E r \in Requests : call_next_returns(r)
  \/ \E r \in Requests : call_next_raises(r)
  \/ \E r \in Requests : next_request(r)

SpecConfig == InitConfig /\ [][NextConfig]_vars


\* ----------------------------------------------------------------- claims
Min(a, b) == IF a <= b THEN a ELSE b

CompleteDoc(d) == d # NoDoc /\ d.mail # Absent /\ d.apiUrl # Absent

\* C1: with invocations one after another and a session endpoint that never
\* fails, the session GET is sent exactly once, by the first call that needs
\* it: no POST goes out before it, a complete session document populates
\* account id and API URL, and later calls send no further GET.
C1_SessionFetchedOnce ==
  ~hist.getErr =>
    /\ hist.gets <= 1
    /\ \A p \in Procs : inv[p].pc = "await_post" => hist.gets = 1
    /\ CompleteDoc(session_data) =>
         account_id = session_data.mail /\ api_url = session_data.apiUrl

\* a later call whose first request is its POST, on the session one earlier GET cached
C1_LaterCallReusesSession ==
  /\ started >= 2
  /\ hist.gets = 1
  /\ ~hist.getErr
  /\ CompleteDoc(session_data)
  /\ \E p \in Procs : inv[p].pc = "await_post" /\ inv[p].nreq = 1 /\ ~inv[p].fetched

\* a decoded response that is malformed: no methodResponses, a method-level
\* error entry, or a get entry without its list
Malformed(body) ==
  /\ body.status = "ok"
  /\ \/ ~body.hasMR
     \/ \E i \in 1..Len(body.mr) : body.mr[i].name = "error"
     \/ \E i \in 1..Len(body.mr) :
          body.mr[i].name \in {"Email/get", "Mailbox/get"} /\ ~body.mr[i].hasList

\* C2 as stated: every failure inside an invocation, a malformed response
\* included, ends in the error text.
C2_EveryFailureIsErrorText ==
  \A p \in Procs :
    (inv[p].pc = "done" /\ (inv[p].exc # None \/ Malformed(inv[p].result)))
      => inv[p].outcome.kind = "error"

\* C2 amended: every exception raised inside an invocation is caught at the
\* entry point and returned as error text, and nothing propagates; a malformed
\* response that raises nothing is answered with the empty-result text.
C2_ExceptionsBecomeErrorText ==
  \A p \in Procs :
    inv[p].pc = "done" =>
      /\ inv[p].outcome.kind \in {"error", "empty", "not_found", "found", "id_required"}
      /\ (inv[p].exc # None) <=> (inv[p].outcome.kind = "error")
      /\ (Malformed(inv[p].result) /\ inv[p].exc = None)
           => inv[p].outcome.kind \in {"empty", "not_found"}

\* an invocation that raised without a token, returned as error text
C2_MissingTokenCaught ==
  \E p \in Procs :
    /\ inv[p].pc = "done"
    /\ inv[p].exc = TokenError
    /\ inv[p].outcome.kind = "error"
    /\ ~fastmail_client.exists

\* C3: the Email/query of a search tool invocation carries min(limit, 50),
\* and no Email/query of any entry point carries a limit above 50.
C3_LimitClamped ==
  \A p \in Procs :
    (Len(inv[p].calls) > 0 /\ inv[p].calls[1].name = "Email/query") =>
      /\ inv[p].calls[1].limit <= 50
      /\ inv[p].tool = "search_emails" => inv[p].calls[1].limit = Min(inv[p].limit, 50)

\* a search asked for 100 emails whose Email/query went out with limit 50
C3_LimitAboveFiftySent ==
  \E p \in Procs :
    /\ inv[p].pc = "await_post"
    /\ inv[p].tool = "search_emails"
    /\ inv[p].limit = 100
    /\ inv[p].calls[1].name = "Email/query"
    /\ inv[p].calls[1].limit = 50

\* a response whose Email/get entries have an empty or absent list
EmptyGetResponse(body) ==
  /\ body.status = "ok"
  /\ body.hasMR
  /\ \E i \in 1..Len(body.mr) : body.mr[i].name = "Email/get"
  /\ \A i \in 1..Len(body.mr) :
       body.mr[i].name = "Email/get" => (~body.mr[i].hasList \/ body.mr[i].list = << >>)

\* C4: a get_email invocation answered with an Email/get entry whose list is
\* empty or absent returns the not-found text naming the id; nothing is raised.
C4_NotFound ==
  \A p \in Procs :
    (inv[p].pc = "done" /\ inv[p].tool = "get_email" /\ EmptyGetResponse(inv[p].result))
      => /\ inv[p].exc = None
         /\ inv[p].outcome = [kind |-> "not_found", exc |-> None, id |-> inv[p].email_id, n |-> 0]

\* get_email("e1") answered with an Email/get entry without a list
C4_AbsentListAnswered ==
  \E p \in Procs :
    /\ inv[p].pc = "done"
    /\ inv[p].tool = "get_email"
    /\ inv[p].email_id = "e1"
    /\ inv[p].result = Body(TRUE, <<Entry("Email/get", FALSE, << >>)>>)
    /\ inv[p].outcome.kind = "not_found"

\* a folder matches a requested name on its display name or on its role
Matches(f, n) ==
  \/ Lower(f.name) = Lower(n)
  \/ f.role \notin {Absent, None} /\ Lower(f.role) = Lower(n)

FirstMatch(l, n) ==
  IF \E i \in 1..Len(l) : Matches(l[i], n)
  THEN l[CHOOSE i \in 1..Len(l) : Matches(l[i], n) /\ \A j \in 1..(i - 1) : ~Matches(l[j], n)].id
  ELSE None

\* C5: get_mailbox_id returns the id of the first folder whose display name or
\* role equals the requested name ignoring case, and None when there is none.
C5_FirstMatch ==
  lookup.pc = "done" =>
    /\ lookup.exc = None
    /\ lookup.id = FirstMatch(lookup.listing, lookup.name)


NoGetInFlight == \A p \in Procs : inv[p].pc # "await_session"

\* C6: the race of overlapping first-use invocations on the session is
\* harmless: an invocation that fetched the session itself goes on as it does
\* when run alone, sending its POSTs to the API URL its own fetch returned, and
\* once the fetches are over the cache holds one session document with the
\* account id and API URL of that document.
C6_RaceHarmless ==
  /\ \A p \in Procs :
       (inv[p].fetched /\ inv[p].pc = "await_post") => inv[p].url = inv[p].ownUrl
  /\ (NoGetInFlight /\ CompleteDoc(session_data)) =>
       account_id = session_data.mail /\ api_url = session_data.apiUrl

\* C7: once account id and API URL are set, no step changes either of them.
C7_SessionImmutable ==
  [][(account_id # None /\ api_url # None)
       => (account_id' = account_id /\ api_url' = api_url)]_vars

\* C8: a session GET that fails with an HTTP error status ends its invocation
\* with that error after this one request (no second GET, no POST), leaves
\* session data, account id and API URL as they were, and while nothing is
\* cached an invocation that needs the session sends the GET anew.
C8_SessionFailure ==
  /\ [](\A p \in Procs :
          inv[p].sessFail =>
            /\ inv[p].pc = "done"
            /\ inv[p].exc = "HTTPStatusError"
            /\ inv[p].outcome.kind = "error"
            /\ inv[p].nreq = 1
            /\ inv[p].nInFlight = 0)
  /\ [][\A p \in Procs :
          /\ (inv'[p].sessFail /\ ~inv[p].sessFail)
               => UNCHANGED <<session_data, account_id, api_url>>
          /\ (session_data = NoDoc /\ inv[p].pc = "idle" /\ Active(p)')
               => inv'[p].pc = "await_session"]_vars

\* one invocation has failed on its session GET, another one has fetched the
\* session and is at its POST
C8_FailedAndFetchedAnew ==
  \E p \in Procs : \E q \in Procs \ {p} :
    /\ inv[p].sessFail
    /\ inv[p].pc = "done"
    /\ inv[q].fetched
    /\ inv[q].pc = "await_post"
    /\ CompleteDoc(session_data)

Completed(p) == inv[p].pc = "done" /\ inv[p].outcome.kind \in {"found", "empty", "not_found"}

\* C9 as stated: an invocation performs one or two network calls, one after
\* another.
C9_OneOrTwoCalls ==
  \A p \in Procs :
    /\ inv[p].nInFlight <= 1
    /\ inv[p].nreq <= 2
    /\ Completed(p) => inv[p].nreq >= 1

\* C9 amended: an invocation performs at most three network calls (the session
\* GET when nothing is cached, the Mailbox/get POST when a folder filter is
\* given, its final POST) and none when it returns before its first request;
\* they are issued one after another, never two in flight.
C9_AtMostThreeCalls ==
  \A p \in Procs :
    /\ inv[p].nInFlight = (IF Active(p) THEN 1 ELSE 0)
    /\ inv[p].nreq <= 3
    /\ Completed(p) => inv[p].nreq >= 1
    /\ inv[p].nreq = 3 => (inv[p].fetched /\ inv[p].cmailbox # None)
    /\ (inv[p].pc = "done" /\ inv[p].nreq = 0) => inv[p].outcome.kind \in {"error", "id_required"}

\* a search with a folder filter on a fresh client, at its third request
C9_ThirdCallInFlight ==
  \E p \in Procs :
    /\ inv[p].pc = "await_post"
    /\ inv[p].nreq = 3
    /\ inv[p].calls[1].name = "Email/query"

\* C10: a search given a mailbox that completes without error has sent an
\* Email/query whose filter has an inMailbox condition; a search without a
\* mailbox has none.
C10_MailboxRestricts ==
  \A p \in Procs :
    (inv[p].pc = "done" /\ inv[p].tool = "search_emails" /\ inv[p].outcome.kind # "error") =>
      /\ inv[p].calls[1].name = "Email/query"
      /\ (inv[p].mailbox # "") <=> (inv[p].calls[1].filter.inMailbox # Absent)

\* the JMAP methods that read and change nothing
ReadMethods == {"Email/query", "Email/get", "Mailbox/get"}

\* C11: over any sequence of tool, resource and prompt invocations, every
\* method call of every request sent to the API is Email/query, Email/get or
\* Mailbox/get; the only other request is the GET of the session document.
C11_ReadOnly ==
  \A p \in Procs :
    /\ inv[p].pc = "await_post" =>
         /\ Len(inv[p].calls) > 0
         /\ \A i \in 1..Len(inv[p].calls) : inv[p].calls[i].name \in ReadMethods
    /\ inv[p].pc = "await_session" => inv[p].url = SESSION_URL

\* after prompts and tools have run, a folder listing and a search batch are
\* in flight at the same time
C11_ListingAndSearchInFlight ==
  /\ started = MaxCalls
  /\ \E p \in Procs : \E q \in Procs \ {p} :
       /\ inv[p].pc = "await_post"
       /\ inv[p].calls[1].name = "Mailbox/get"
       /\ inv[q].pc = "await_post"
       /\ inv[q].calls[1].name = "Email/query"

\* the method calls the caller of make_jmap_request built, for account id a
BuiltCalls(pr, a) ==
  CASE pr.phase = "mailbox" -> ListMailboxesCalls(a)
    [] pr.tool \in {"search_emails", "get_recent_emails_resource"} ->
         SearchCalls(a, pr.cquery, pr.climit, pr.mailbox_id)
    [] pr.tool = "get_email" -> GetEmailCalls(a, pr.email_id)
    [] OTHER -> ListMailboxesCalls(a)

\* C12: no POST goes out before the session is loaded. A POST in flight has
\* been preceded by a session GET that returned a document, declares the two
\* capability URNs and carries the caller's method calls in their order; when
\* it is sent it is addressed to the client's API URL, and the API URL only
\* ever takes the apiUrl of a complete session document just fetched.
C12_PostAfterSession ==
  /\ [](\A p \in Procs :
          inv[p].pc = "await_post" =>
            /\ hist.gets >= 1
            /\ session_data # NoDoc
            /\ inv[p].url \in {d.apiUrl : d \in SessionDocs} \ {Absent}
            /\ inv[p].using = Using
            /\ inv[p].calls = BuiltCalls(inv[p], inv[p].calls[1].accountId))
  /\ [][/\ \A p \in Procs :
            (inv'[p].nreq = inv[p].nreq + 1 /\ inv'[p].pc = "await_post")
              => (api_url' # None /\ inv'[p].url = api_url')
        /\ api_url' # api_url =>
             /\ \E q \in Procs : inv[q].pc = "await_session" /\ inv'[q].fetched
             /\ CompleteDoc(session_data')
             /\ api_url' = session_data'.apiUrl]_vars

\* a get_email whose own session GET returned the document of account a2 has
\* its POST in flight to that document's API URL
C12_PostToFetchedUrl ==
  \E p \in Procs :
    /\ inv[p].pc = "await_post"
    /\ inv[p].tool = "get_email"
    /\ inv[p].fetched
    /\ inv[p].nreq = 2
    /\ inv[p].url = "u2"
    /\ session_data = [mail |-> "a2", apiUrl |-> "u2"]

SearchTools == {"search_emails", "get_recent_emails_resource"}

\* C13: the request of a search is one batch of two method calls: Email/query
\* with call id q1 sorted by receivedAt descending, then Email/get with call id
\* g1 whose ids are the back-reference to /ids of q1; with a folder filter the
\* Mailbox/get request has been sent and answered before the batch goes out.
C13_SearchBatch ==
  \A p \in Procs :
    (inv[p].pc = "await_post" /\ inv[p].tool \in SearchTools) =>
      IF inv[p].phase = "final"
      THEN /\ Len(inv[p].calls) = 2
           /\ inv[p].calls[1].name = "Email/query"
           /\ inv[p].calls[1].callId = "q1"
           /\ inv[p].calls[1].sort = <<[property |-> "receivedAt", isAscending |-> FALSE]>>
           /\ inv[p].calls[2].name = "Email/get"
           /\ inv[p].calls[2].callId = "g1"
           /\ inv[p].calls[2].ids = IdsRef("q1", "Email/query", "/ids")
           /\ inv[p].cmailbox # None => (inv[p].looked /\ inv[p].nreq >= 2)
           /\ inv[p].cmailbox = None => ~inv[p].looked
      ELSE /\ inv[p].cmailbox # None
           /\ ~inv[p].looked
           /\ Len(inv[p].calls) = 1
           /\ inv[p].calls[1].name = "Mailbox/get"

\* a search in folder "inbox" whose lookup was answered with the folder's id
\* has its batch in flight, filtered to that folder
C13_BatchAfterLookup ==
  \E p \in Procs :
    /\ inv[p].pc = "await_post"
    /\ inv[p].tool = "search_emails"
    /\ inv[p].mailbox = "inbox"
    /\ inv[p].phase = "final"
    /\ inv[p].looked
    /\ inv[p].calls[1].filter.inMailbox = "m1"

\* C14: every method call of every request POSTed to the API carries the mail
\* account id of the session document, never null, the first request of a
\* freshly created client included.
C14_AccountIdFromSession ==
  \A p \in Procs :
    inv[p].pc = "await_post" =>
      \A i \in 1..Len(inv[p].calls) :
        /\ inv[p].calls[i].accountId # None
        /\ inv[p].calls[i].accountId = session_data.mail

\* C15: the cached session is all-or-nothing: session data is set exactly when
\* account id and API URL are both set, whatever document the endpoint returns;
\* a document lacking the mail account or the apiUrl is not cached.
C15_SessionAllOrNothing ==
  /\ (session_data # NoDoc) <=> (account_id # None /\ api_url # None)
  /\ session_data # NoDoc => CompleteDoc(session_data)

IdRequired == [kind |-> "id_required", exc |-> None, id |-> "", n |-> 0]

\* C16: a get_email invocation with an empty email id returns the
\* 'email_id is required' text in the step that starts it: no client is
\* created, no request is sent, and the global client and the cached session
\* stay as they were.
C16_EmptyIdReturnsAtOnce ==
  [][\A p \in Procs :
       (inv[p].pc = "idle" /\ inv'[p].pc # "idle"
          /\ inv'[p].tool = "get_email" /\ inv'[p].email_id = "")
         => /\ inv'[p].pc = "done"
            /\ inv'[p].outcome = IdRequired
            /\ inv'[p].exc = None
            /\ inv'[p].nreq = 0
            /\ inv'[p].nInFlight = 0
            /\ UNCHANGED <<fastmail_client, session_data, account_id, api_url, hist>>]_vars

\* get_email("") has returned its text while no token is configured and no
\* client exists
C16_ReturnedWithoutToken ==
  \E p \in Procs :
    /\ inv[p].pc = "done"
    /\ inv[p].tool = "get_email"
    /\ inv[p].email_id = ""
    /\ inv[p].outcome = IdRequired
    /\ envToken = ""
    /\ ~fastmail_client.exists

\* invocation p starts in this step and gets as far as get_client()
CallsGetClient(p) ==
  /\ inv[p].pc = "idle"
  /\ inv'[p].pc # "idle"
  /\ ~EarlyReturn(inv'[p].tool, [email_id |-> inv'[p].email_id])

\* C17: the global client is a lazily created singleton. At most one client
\* is ever constructed and, once it exists, it and its token never change;
\* while no token is configured get_client raises, constructs nothing, sends
\* nothing and leaves the global client unset; an invocation made once a
\* token is available gets the client, created with that token if there was
\* none.
C17_LazySingleton ==
  /\ [](/\ hist.clients <= 1
        /\ fastmail_client.exists <=> hist.clients = 1
        /\ fastmail_client.exists => fastmail_client.api_token # "")
  /\ [][fastmail_client.exists => fastmail_client' = fastmail_client]_vars
  /\ [][\A p \in Procs :
          CallsGetClient(p) =>
            IF ~fastmail_client.exists /\ envToken = ""
            THEN /\ inv'[p].pc = "done"
                 /\ inv'[p].exc = TokenError
                 /\ inv'[p].outcome.kind = "error"
                 /\ inv'[p].nreq = 0
                 /\ ~fastmail_client'.exists
                 /\ UNCHANGED <<hist, session_data, account_id, api_url>>
            ELSE /\ fastmail_client'.exists
                 /\ ~fastmail_client.exists => fastmail_client'.api_token = envToken
                 /\ inv'[p].exc # TokenError]_vars

\* an invocation failed for want of a token; after the token was configured a
\* later one created the client and has its session GET in flight
C17_CreatedAfterTokenSet ==
  \E p \in Procs : \E q \in Procs \ {p} :
    /\ inv[p].pc = "done"
    /\ inv[p].exc = TokenError
    /\ inv[q].pc = "await_session"
    /\ fastmail_client = [exists |-> TRUE, api_token |-> "tok"]
    /\ hist.clients = 1

\* C18: ConfigMiddleware scopes the configuration to the request. While a
\* request is handled request_config holds its query parameters in its
\* context; when the request finishes, by a response or by an exception,
\* request_config is back at the value it had before the request; a request
\* never starts with, nor changes, the configuration another request sees.
C18_ConfigScoped ==
  /\ [](\A r \in Requests :
          /\ requests[r].pc = "handling" =>
               ContextVarGet(request_config[r]) = requests[r].query_params
          /\ requests[r].pc = "done" => request_config[r] = requests[r].token
          /\ requests[r].pc = "idle" => ContextVarGet(request_config[r]) = "{}")
  /\ [][\A r \in Requests :
          requests'[r] # requests[r] =>
            \A o \in Requests \ {r} : request_config'[o] = request_config[o]]_vars

\* a request that carried a token was ended by an exception while another
\* request with another token is being handled
C18_RaisedWhileOtherHandled ==
  \E r \in Requests : \E o \in Requests \ {r} :
    /\ requests[r].pc = "done"
    /\ requests[r].raised
    /\ requests[r].query_params = "{fastmailApiToken: t1}"
    /\ request_config[r] = Unset
    /\ requests[o].pc = "handling"
    /\ request_config[o] = "{fastmailApiToken: t2}"

====
